---- MODULE Spec2Model ----
(***************************************************************************)
(* Car dealership inventory manager: the Car entity (car.py) and the two   *)
(* DealerManager classes of the repository (dealer_manager.py, which the   *)
(* tests, main.py, app.py and web_app.py import, and dealer_app.py).       *)
(*                                                                         *)
(* Strings are sequences of one-character strings.  JSON / Python values   *)
(* are tagged records [t, s, n]: t is the Python type, s the string value, *)
(* n the numeric value.                                                    *)
(***************************************************************************)
EXTENDS Integers, Sequences, FiniteSets, TLC

(***************************************************************************)
(* Bounds of the model.                                                    *)
(***************************************************************************)
MaxFileLen == 2
MaxInv == 2
MaxSales == 1

(***************************************************************************)
(* Program constants.                                                      *)
(***************************************************************************)
VinLen == 17
MinYear == 1900
YearSlack == 2
CurrentYear == 2026
Placeholder == <<"/","s","t","a","t","i","c","/","p","l","a","c","e","h","o","l","d","e","r",".","p","n","g">>

(***************************************************************************)
(* str methods: strip, upper, lower, title.                                *)
(***************************************************************************)
Lowers == <<"a","b","c","d","e","f","g","h","i","j","k","l","m",
            "n","o","p","q","r","s","t","u","v","w","x","y","z">>
Uppers == <<"A","B","C","D","E","F","G","H","I","J","K","L","M",
            "N","O","P","Q","R","S","T","U","V","W","X","Y","Z">>
Digits == <<"0","1","2","3","4","5","6","7","8","9">>

LowerSet == {Lowers[i] : i \in 1..26}
UpperSet == {Uppers[i] : i \in 1..26}
DigitSet == {Digits[i] : i \in 1..10}
ToUpper == [c \in LowerSet |-> Uppers[CHOOSE i \in 1..26 : Lowers[i] = c]]
ToLower == [c \in UpperSet |-> Lowers[CHOOSE i \in 1..26 : Uppers[i] = c]]
DigitOf == [c \in DigitSet |-> (CHOOSE i \in 1..10 : Digits[i] = c) - 1]

\* a lower-case letter whose upper case is two characters (U+00DF)
Eszett == "ß"
EszettUpper == <<"S", "S">>
EszettTitle == <<"S", "s">>

IsLower(c) == c \in LowerSet \/ c = Eszett
IsUpper(c) == c \in UpperSet
IsCased(c) == IsLower(c) \/ IsUpper(c)
IsSpace(c) == c = " "
IsDigit(c) == c \in DigitSet

UpperC(c) == IF c \in LowerSet THEN ToUpper[c] ELSE c
LowerC(c) == IF IsUpper(c) THEN ToLower[c] ELSE c

\* the concatenation of a sequence of strings
RECURSIVE Flat(_)
Flat(ss) == IF ss = <<>> THEN <<>> ELSE Head(ss) \o Flat(Tail(ss))

HasEszett(s) == \E i \in 1..Len(s) : s[i] = Eszett

\* str.upper(): character by character; the result is longer than the
\* string when a character has a two-character upper case.
upper(s) ==
  IF ~HasEszett(s) THEN [i \in 1..Len(s) |-> UpperC(s[i])]
  ELSE Flat([i \in 1..Len(s) |->
               IF s[i] = Eszett THEN EszettUpper ELSE <<UpperC(s[i])>>])
lower(s) == [i \in 1..Len(s) |-> LowerC(s[i])]

\* str.title(): a cased character is title-cased when it does not follow a
\* cased character and lower-cased when it does.
title(s) ==
  IF ~HasEszett(s)
  THEN [i \in 1..Len(s) |->
          IF i > 1 /\ IsCased(s[i-1]) THEN LowerC(s[i]) ELSE UpperC(s[i])]
  ELSE Flat([i \in 1..Len(s) |->
               IF i > 1 /\ IsCased(s[i-1]) THEN <<LowerC(s[i])>>
               ELSE IF s[i] = Eszett THEN EszettTitle ELSE <<UpperC(s[i])>>])

\* str.strip(): drop leading and trailing whitespace.
strip(s) ==
  IF \A i \in 1..Len(s) : IsSpace(s[i]) THEN <<>>
  ELSE LET a == CHOOSE i \in 1..Len(s) :
                  ~IsSpace(s[i]) /\ \A j \in 1..(i-1) : IsSpace(s[j])
           b == CHOOSE i \in 1..Len(s) :
                  ~IsSpace(s[i]) /\ \A j \in (i+1)..Len(s) : IsSpace(s[j])
       IN  SubSeq(s, a, b)

\* vin.strip().upper()
Norm(v) == upper(strip(v))

\* x in y for strings: substring test.
Contains(sub, s) ==
  \E i \in 0..(Len(s) - Len(sub)) : SubSeq(s, i + 1, i + Len(sub)) = sub

(***************************************************************************)
(* Python / JSON values.                                                   *)
(***************************************************************************)
Null == [t |-> "null", s |-> <<>>, n |-> 0]
Str(x) == [t |-> "str", s |-> x, n |-> 0]
Num(k) == [t |-> "num", s |-> <<>>, n |-> k]
\* the string datetime.strftime("%Y-%m-%d %H:%M:%S") gives for the instant k
DateStr(k) == [t |-> "datestr", s |-> <<>>, n |-> k]

RECURSIVE NatStr(_)
NatStr(k) == IF k < 10 THEN <<Digits[k + 1]>>
             ELSE NatStr(k \div 10) \o <<Digits[(k % 10) + 1]>>

\* str(x)
PyStr(v) ==
  CASE v.t = "str" -> v.s
    [] v.t = "num" -> IF v.n < 0 THEN <<"-">> \o NatStr(-v.n) ELSE NatStr(v.n)
    [] v.t = "null" -> <<"N", "o", "n", "e">>
    [] OTHER -> <<>>

RECURSIVE DigitsVal(_)
DigitsVal(s) ==
  IF Len(s) = 0 THEN 0
  ELSE 10 * DigitsVal(SubSeq(s, 1, Len(s) - 1))
       + DigitOf[s[Len(s)]]

\* the value of a stripped literal: optional sign, then digits
Literal(s) ==
  IF s = <<>> THEN [ok |-> FALSE, n |-> 0]
  ELSE IF s[1] = "-" \/ s[1] = "+"
       THEN IF Len(s) > 1 /\ \A i \in 2..Len(s) : IsDigit(s[i])
            THEN [ok |-> TRUE,
                  n |-> IF s[1] = "-" THEN -DigitsVal(Tail(s))
                        ELSE DigitsVal(Tail(s))]
            ELSE [ok |-> FALSE, n |-> 0]
  ELSE IF \A i \in 1..Len(s) : IsDigit(s[i])
       THEN [ok |-> TRUE, n |-> DigitsVal(s)]
       ELSE [ok |-> FALSE, n |-> 0]

\* int(str) / float(str) on a decimal integer literal with optional sign and
\* surrounding whitespace; anything else is a ValueError.
ParseNum(raw) == Literal(strip(raw))

ParsedNum(r) == IF r.ok THEN [exc |-> "none", n |-> r.n]
                ELSE [exc |-> "ValueError", n |-> 0]

\* int(x) and float(x): a number converts, a string is parsed (ValueError when
\* it is not a literal), None is a TypeError.
ToNum(v) ==
  CASE v.t = "num" -> [exc |-> "none", n |-> v.n]
    [] v.t = "str" -> ParsedNum(ParseNum(v.s))
    [] OTHER -> [exc |-> "TypeError", n |-> 0]

\* a datetime object for the instant k
DateTime(k) == [t |-> "datetime", s |-> <<>>, n |-> k]

\* the float k + 1/2
Half(k) == [t |-> "half", s |-> <<>>, n |-> k]

\* int(x): a float is truncated toward zero; everything else as ToNum.  (The
\* model has no float(x) of a Half: prices are whole numbers.)
ToInt(v) ==
  IF v.t = "half"
  THEN [exc |-> "none", n |-> IF v.n >= 0 THEN v.n ELSE v.n + 1]
  ELSE ToNum(v)

(***************************************************************************)
(* car.py: class Car.                                                      *)
(***************************************************************************)
NoCar == [make |-> <<>>, model |-> <<>>, year |-> 0, price |-> 0,
          vin |-> <<>>, image_url |-> <<>>, sale_date |-> Null]

BadInput == [exc |-> "ValueError", make |-> <<>>, model |-> <<>>,
             year |-> 0, price |-> 0, vin |-> <<>>]

\* the checks of Car._validate_input on the stripped strings and the
\* converted numbers, in the order of the code
Validate(make, model, vin, y, p) ==
  IF make = <<>> \/ model = <<>> THEN BadInput
  ELSE IF vin = <<>> \/ Len(vin) # VinLen THEN BadInput
  ELSE IF y.exc # "none" THEN BadInput
  ELSE IF ~(MinYear <= y.n /\ y.n <= CurrentYear + YearSlack) THEN BadInput
  ELSE IF p.exc # "none" THEN BadInput
  ELSE IF p.n <= 0 THEN BadInput
  ELSE [exc |-> "none", make |-> title(make), model |-> title(model),
        year |-> y.n, price |-> p.n, vin |-> upper(vin)]

\* Car._validate_input: the cleaned fields, or the ValueError it raises.
_validate_input(make, model, year, price, vin) ==
  Validate(strip(PyStr(make)), strip(PyStr(model)), strip(PyStr(vin)),
           ToInt(year), ToNum(price))

\* image_url.strip(), or the placeholder when that is empty
CleanImage(stripped) == IF stripped # <<>> THEN stripped ELSE Placeholder

\* the assignments of Car.__init__ after validation; image_url.strip()
\* raises AttributeError when image_url is not a string.
Assign(v, image_url, sale_date) ==
  IF v.exc # "none" THEN [exc |-> v.exc, car |-> NoCar]
  ELSE IF image_url.t # "str" THEN [exc |-> "AttributeError", car |-> NoCar]
  ELSE [exc |-> "none",
        car |-> [make |-> v.make, model |-> v.model, year |-> v.year,
                 price |-> v.price, vin |-> v.vin,
                 image_url |-> CleanImage(strip(image_url.s)),
                 sale_date |-> sale_date]]

\* Car.__init__
Car(make, model, year, price, vin, image_url, sale_date) ==
  Assign(_validate_input(make, model, year, price, vin), image_url, sale_date)

\* A JSON object with the seven keys to_dict emits; keys is the set of keys
\* the object has, obj is FALSE for a JSON value that is not an object.
JObj(keys, make, model, year, price, vin, image_url, sale_date) ==
  [obj |-> TRUE, keys |-> keys, make |-> make, model |-> model, year |-> year,
   price |-> price, vin |-> vin, image_url |-> image_url,
   sale_date |-> sale_date]

CarKeys == {"make", "model", "year", "price", "vin", "image_url", "sale_date"}
RequiredKeys == {"make", "model", "year", "price", "vin"}

\* a JSON value that is not an object (a number, a string, null, a list)
NoObj == [obj |-> FALSE, keys |-> {}, make |-> Null, model |-> Null,
          year |-> Null, price |-> Null, vin |-> Null, image_url |-> Null,
          sale_date |-> Null]

\* truth value of a Python value
Truthy(v) ==
  CASE v.t = "null" -> FALSE
    [] v.t = "str" -> v.s # <<>>
    [] v.t = "num" -> v.n # 0
    [] OTHER -> TRUE

\* Car.to_dict: sale_date.isoformat() when sale_date is truthy, which raises
\* AttributeError when sale_date is not a datetime.
to_dict(car) ==
  IF Truthy(car.sale_date) /\ car.sale_date.t # "datetime"
  THEN [exc |-> "AttributeError", d |-> NoObj]
  ELSE [exc |-> "none",
        d |-> JObj(CarKeys, Str(car.make), Str(car.model), Num(car.year),
                   Num(car.price), Str(car.vin), Str(car.image_url),
                   IF Truthy(car.sale_date)
                   THEN [t |-> "isostr", s |-> <<>>, n |-> car.sale_date.n]
                   ELSE Null)]

\* the arguments of a Car(...) call
Raw(make, model, year, price, vin, image_url) ==
  [make |-> make, model |-> model, year |-> year, price |-> price,
   vin |-> vin, image_url |-> image_url]

Failed(exc) == [exc |-> exc, car |-> NoCar]
NoDict(exc) == [exc |-> exc, d |-> NoObj]

\* A trial: the arguments a caller passes to Car, and what construction
\* (first), to_dict (d), Car(**d) (second) and to_dict again (d2) gave.
Trial(stage, args, sale_date) ==
  [stage |-> stage, args |-> args, sale_date |-> sale_date,
   first |-> Failed("pending"), d |-> NoDict("pending"),
   second |-> Failed("pending"), d2 |-> NoDict("pending")]

\* no Car is under construction
NoTrial == [stage |-> "none"]

\* no program is being followed
NoFlow == [at |-> "none"]

(***************************************************************************)
(* State.                                                                  *)
(***************************************************************************)
VARIABLES
  impl,           \* the module the manager class comes from
  pc,             \* "start": not constructed, "ready", "crashed": __init__ raised
  inv_file,       \* content of file_path
  sales_file,     \* content of sales_file
  inventory,      \* self.inventory: sequence of Car
  sales_history,  \* self.sales_history: whatever json.load returned, or a list
  now,            \* datetime.now(), in seconds
  last,           \* the last call: operation, argument, result
  added,          \* VINs accepted by add_car and not removed since
  trial,          \* a Car under construction outside the manager
  flow            \* the program that calls the manager: where it is, what
                  \* it told the user

vars == <<impl, pc, inv_file, sales_file, inventory, sales_history, now, last,
          added, trial, flow>>

\* a file: missing, not JSON, or a JSON document (a list, an object whose
\* iteration yields its keys, or a scalar)
File(kind, items) == [kind |-> kind, items |-> items]

\* the value json.load returns for a document
Json(kind, items) == [kind |-> kind, items |-> items]
EmptyList == Json("list", <<>>)

\* out: the list a call returned, <<>> when it returned none; sold and
\* revenue: the totals of a sales report
Call(op, ret, vin, idx) ==
  [op |-> op, ret |-> ret, vin |-> vin, idx |-> idx, out |-> <<>>,
   sold |-> 0, revenue |-> 0]

(***************************************************************************)
(* dealer_manager.py and dealer_app.py: loading.                           *)
(***************************************************************************)
\* Car(**car_data) in dealer_manager._load_data
CarFromDict(d) ==
  IF ~d.obj THEN [exc |-> "TypeError", car |-> NoCar]
  ELSE IF ~(RequiredKeys \subseteq d.keys) THEN [exc |-> "TypeError", car |-> NoCar]
  ELSE IF ~(d.keys \subseteq CarKeys) THEN [exc |-> "TypeError", car |-> NoCar]
  ELSE Car(d.make, d.model, d.year, d.price, d.vin,
           IF "image_url" \in d.keys THEN d.image_url ELSE Str(<<>>),
           IF "sale_date" \in d.keys THEN d.sale_date ELSE Null)

\* car_data.get(key, default)
Get(d, key, val, default) == IF key \in d.keys THEN val ELSE default

\* the body of the loop of dealer_app._load_data
CarFromGet(d) ==
  IF ~d.obj THEN [exc |-> "AttributeError", car |-> NoCar]
  ELSE Car(Get(d, "make", d.make, Null), Get(d, "model", d.model, Null),
           Get(d, "year", d.year, Null), Get(d, "price", d.price, Null),
           Get(d, "vin", d.vin, Null),
           Get(d, "image_url", d.image_url, Str(<<>>)), Null)

Construct(m, d) == IF m = "dealer_manager" THEN CarFromDict(d) ELSE CarFromGet(d)

\* the for loop of _load_data: TypeError and ValueError skip the record, any
\* other exception leaves the loop.
RECURSIVE LoadLoop(_, _, _)
LoadLoop(m, items, inv) ==
  IF items = <<>> THEN [exc |-> "none", inv |-> inv]
  ELSE LET r == Construct(m, Head(items))
       IN  IF r.exc = "none" THEN LoadLoop(m, Tail(items), Append(inv, r.car))
           ELSE IF r.exc \in {"TypeError", "ValueError"}
                THEN LoadLoop(m, Tail(items), inv)
           ELSE [exc |-> r.exc, inv |-> inv]

\* _load_data: a missing file and a JSONDecodeError leave the inventory empty;
\* iterating a scalar is a TypeError outside the inner try.
_load_data(m, f) ==
  CASE f.kind = "missing" -> [exc |-> "none", inv |-> <<>>]
    [] f.kind = "unparsable" -> [exc |-> "none", inv |-> <<>>]
    [] f.kind = "scalar" -> [exc |-> "TypeError", inv |-> <<>>]
    [] OTHER -> LoadLoop(m, f.items, <<>>)

\* reversed(xs)
reversed(xs) == [i \in 1..Len(xs) |-> xs[Len(xs) + 1 - i]]

\* _load_sales_history putting the newest record first
LoadSalesNewestFirst(f) ==
  CASE f.kind = "missing" -> EmptyList
    [] f.kind = "unparsable" -> EmptyList
    [] OTHER -> Json(f.kind, reversed(f.items))

\* _load_sales_history: whatever json.load returns is assigned unchecked.
_load_sales_history(f) ==
  CASE f.kind = "missing" -> EmptyList
    [] f.kind = "unparsable" -> EmptyList
    [] OTHER -> Json(f.kind, f.items)

\* DealerManager.__init__
__init__ ==
  /\ pc = "start"
  /\ LET r == _load_data(impl, inv_file)
     IN  IF r.exc = "none"
         THEN /\ pc' = "ready"
              /\ inventory' = r.inv
              /\ sales_history' = _load_sales_history(sales_file)
              /\ last' = Call("__init__", "None", <<>>, 0)
         ELSE /\ pc' = "crashed"
              /\ last' = Call("__init__", r.exc, <<>>, 0)
              /\ UNCHANGED <<inventory, sales_history>>
  /\ UNCHANGED <<impl, inv_file, sales_file, now, added, trial, flow>>

(***************************************************************************)
(* VIN arguments.                                                          *)
(***************************************************************************)
\* a 17-character VIN starting with c
V17(c) == [i \in 1..VinLen |-> IF i = 1 THEN c ELSE "V"]
Padded(s) == <<" ">> \o s \o <<" ">>

\* the case and whitespace variants of a VIN
Variants(v) ==
  {v, lower(v), Padded(v), Padded(lower(v)), <<" ">> \o lower(v),
   lower(v) \o <<" ", " ">>}

\* a 17-character VIN whose first character has a two-character upper case
EszettVin == [i \in 1..VinLen |-> IF i = 1 THEN Eszett ELSE "V"]

ProbeVins ==
  UNION {Variants(V17(c)) : c \in {"A", "B", "C"}}
  \cup {EszettVin, upper(EszettVin)}

\* vin.strip().upper() of every VIN argument, computed once
NormOf == [v \in ProbeVins |-> Norm(v)]

(***************************************************************************)
(* dealer_manager.py and dealer_app.py: operations.                        *)
(***************************************************************************)
\* next((car for car in self.inventory if car.vin == vin), None): the
\* position of the first car with that vin; 0 stands for None.
FirstWith(inv, key) ==
  IF \E i \in 1..Len(inv) : inv[i].vin = key
  THEN CHOOSE i \in 1..Len(inv) :
         inv[i].vin = key /\ \A j \in 1..(i-1) : inv[j].vin # key
  ELSE 0

\* find_car_by_vin comparing the stripped argument without upper-casing it
FindCaseSensitive(inv, vin) == FirstWith(inv, strip(vin))

\* find_car_by_vin: the argument is stripped and upper-cased first
find_car_by_vin(inv, vin) == FirstWith(inv, NormOf[vin])

Returned(vin, i) ==
  last' = Call("find_car_by_vin", IF i = 0 THEN "None" ELSE "Car", vin, i)

FindCar(vin) ==
  /\ pc = "ready"
  /\ Returned(vin, find_car_by_vin(inventory, vin))
  /\ UNCHANGED <<impl, pc, inv_file, sales_file, inventory, sales_history, now,
                 added, trial, flow>>

\* add_car storing the rejected car over the entry it collides with
AddOverwriting(car, found) ==
  IF found # 0
  THEN /\ last' = Call("add_car", "False", car.vin, 0)
       /\ inventory' = [inventory EXCEPT ![found] = car]
       /\ UNCHANGED added
  ELSE /\ Len(inventory) < MaxInv
       /\ inventory' = Append(inventory, car)
       /\ added' = added \cup {car.vin}
       /\ last' = Call("add_car", "True", car.vin, 0)

\* an add_car that also refuses a VIN the sales log holds a record of
AddUnlessSold(car, found) ==
  IF found # 0 \/ \E i \in 1..Len(sales_history.items) :
                    sales_history.items[i].vin = Str(car.vin)
  THEN /\ last' = Call("add_car", "False", car.vin, 0)
       /\ UNCHANGED <<inventory, added>>
  ELSE /\ Len(inventory) < MaxInv
       /\ inventory' = Append(inventory, car)
       /\ added' = added \cup {car.vin}
       /\ last' = Call("add_car", "True", car.vin, 0)

\* the body of add_car, found being the result of find_car_by_vin(car.vin)
AddOrReject(car, found) ==
  IF found # 0
  THEN /\ last' = Call("add_car", "False", car.vin, 0)
       /\ UNCHANGED <<inventory, added>>
  ELSE /\ Len(inventory) < MaxInv
       /\ inventory' = Append(inventory, car)
       /\ added' = added \cup {car.vin}
       /\ last' = Call("add_car", "True", car.vin, 0)

\* add_car(car), the same in both modules
add_car(car) ==
  /\ pc = "ready"
  /\ AddOrReject(car, find_car_by_vin(inventory, car.vin))
  /\ UNCHANGED <<impl, pc, inv_file, sales_file, sales_history, now, trial, flow>>

\* the values dealer_manager.edit_car validates: the new one when given,
\* the car's own otherwise
Proposed(new, old) == IF new.t # "null" THEN new ELSE Num(old)

\* the car dealer_manager.edit_car constructs to validate the proposal
Revalidate(car, new_price, new_year) ==
  Car(Str(car.make), Str(car.model), Proposed(new_year, car.year),
      Proposed(new_price, car.price), Str(car.vin), Str(car.image_url), Null)

\* assignments that write both fields on every edit, a field that was not
\* given being reset to the lowest value validation accepts
ApplyEditDefaulting(i, vin, new_price, new_year, r) ==
  IF r.exc # "none" THEN
    /\ last' = Call("edit_car", r.exc, vin, i)
    /\ UNCHANGED inventory
  ELSE
    /\ inventory' =
         [inventory EXCEPT
            ![i].price = IF new_price.t # "null" THEN ToNum(new_price).n ELSE 1,
            ![i].year = IF new_year.t # "null" THEN ToInt(new_year).n
                        ELSE MinYear]
    /\ last' = Call("edit_car", "True", vin, i)

\* the assignments of dealer_manager.edit_car once r, the revalidation, is in
ApplyEdit(i, vin, new_price, new_year, r) ==
  IF r.exc # "none" THEN
    /\ last' = Call("edit_car", r.exc, vin, i)
    /\ UNCHANGED inventory
  ELSE
    /\ inventory' =
         [inventory EXCEPT
            ![i].price = IF new_price.t # "null" THEN ToNum(new_price).n ELSE @,
            ![i].year = IF new_year.t # "null" THEN ToInt(new_year).n ELSE @]
    /\ last' = Call("edit_car", "True", vin, i)

\* the body of dealer_manager.edit_car, i being the car found
EditFound(i, vin, new_price, new_year) ==
  IF i = 0 THEN
    /\ last' = Call("edit_car", "ValueError", vin, 0)
    /\ UNCHANGED inventory
  ELSE IF new_price.t = "null" /\ new_year.t = "null" THEN
    /\ last' = Call("edit_car", "ValueError", vin, i)
    /\ UNCHANGED inventory
  ELSE ApplyEdit(i, vin, new_price, new_year,
                 Revalidate(inventory[i], new_price, new_year))

\* dealer_manager.edit_car(vin, new_price, new_year): the proposed values are
\* validated together by constructing a Car, then applied; every failure is
\* raised as ValueError.
edit_car(vin, new_price, new_year) ==
  /\ pc = "ready"
  /\ impl = "dealer_manager"
  /\ EditFound(find_car_by_vin(inventory, vin), vin, new_price, new_year)
  /\ UNCHANGED <<impl, pc, inv_file, sales_file, sales_history, now, added,
                 trial, flow>>

\* a validated assignment of dealer_app.edit_car
Step(ok, car) == [ok |-> ok, car |-> car]

\* the price step of dealer_app.edit_car, p being float(new_price)
PriceStep(car, new_price, p) ==
  IF new_price.t = "null" THEN Step(TRUE, car)
  ELSE IF p.exc # "none" THEN Step(FALSE, car)
  ELSE IF p.n <= 0 THEN Step(FALSE, car)
  ELSE Step(TRUE, [car EXCEPT !.price = p.n])

EditPrice(car, new_price) == PriceStep(car, new_price, ToNum(new_price))

\* the year step of dealer_app.edit_car, y being int(new_year)
YearStep(car, new_year, y) ==
  IF new_year.t = "null" THEN Step(TRUE, car)
  ELSE IF y.exc # "none" THEN Step(FALSE, car)
  ELSE IF ~(MinYear <= y.n /\ y.n <= CurrentYear + YearSlack)
       THEN Step(FALSE, car)
  ELSE Step(TRUE, [car EXCEPT !.year = y.n])

EditYear(car, new_year) == YearStep(car, new_year, ToInt(new_year))

\* the image_url step of dealer_app.edit_car and its return
ImageStep(i, vin, car, new_image_url) ==
  IF new_image_url.t = "null" THEN
    /\ last' = Call("edit_car", "True", vin, i)
    /\ inventory' = [inventory EXCEPT ![i] = car]
  ELSE IF new_image_url.t # "str" THEN
    /\ last' = Call("edit_car", "AttributeError", vin, i)
    /\ inventory' = [inventory EXCEPT ![i] = car]
  ELSE
    /\ last' = Call("edit_car", "True", vin, i)
    /\ inventory' =
         [inventory EXCEPT
            ![i] = [car EXCEPT !.image_url = CleanImage(strip(new_image_url.s))]]

\* the year step onwards, p being the outcome of the price step
AfterPrice(i, vin, p, new_year, new_image_url) ==
  IF ~p.ok THEN
    /\ last' = Call("edit_car", "False", vin, i)
    /\ UNCHANGED inventory
  ELSE IF ~EditYear(p.car, new_year).ok THEN
    /\ last' = Call("edit_car", "False", vin, i)
    /\ inventory' = [inventory EXCEPT ![i] = p.car]
  ELSE ImageStep(i, vin, EditYear(p.car, new_year).car, new_image_url)

\* the body of dealer_app.edit_car, i being the car found
AppEditFound(i, vin, new_price, new_year, new_image_url) ==
  IF i = 0 THEN
    /\ last' = Call("edit_car", "False", vin, 0)
    /\ UNCHANGED inventory
  ELSE AfterPrice(i, vin, EditPrice(inventory[i], new_price), new_year,
                  new_image_url)

\* dealer_app.edit_car(vin, new_price, new_year, new_image_url): each provided
\* field is validated and assigned in turn; ValueError and TypeError return
\* False, with the earlier assignments kept.
app_edit_car(vin, new_price, new_year, new_image_url) ==
  /\ pc = "ready"
  /\ impl = "dealer_app"
  /\ AppEditFound(find_car_by_vin(inventory, vin), vin, new_price, new_year,
                  new_image_url)
  /\ UNCHANGED <<impl, pc, inv_file, sales_file, sales_history, now, added,
                 trial, flow>>

\* a rebuild of the inventory that keeps no entry
WithoutAny(inv, vin) == <<>>

\* [car for car in self.inventory if car.vin != vin]
RECURSIVE Without(_, _)
Without(inv, vin) ==
  IF inv = <<>> THEN <<>>
  ELSE IF Head(inv).vin # vin THEN <<Head(inv)>> \o Without(Tail(inv), vin)
  ELSE Without(Tail(inv), vin)

\* a remove_car that reports success for a VIN it did not find
SellUnfound(i, vin, key, d, t) ==
  IF i = 0 \/ d.exc # "none" \/ sales_history.kind # "list" THEN
    /\ last' = Call("remove_car", "True", vin, 0)
    /\ UNCHANGED <<inventory, sales_history, added, now>>
  ELSE
    /\ Len(sales_history.items) < MaxSales
    /\ now' = t
    /\ sales_history' =
         [sales_history EXCEPT
            !.items = Append(@, [d.d EXCEPT !.sale_date = DateStr(t)])]
    /\ inventory' = Without(inventory, key)
    /\ added' = added \ {key}
    /\ last' = Call("remove_car", "True", vin, i)

\* a sale that keeps only the record it writes, dropping the earlier ones
SellRewriting(i, vin, key, d, t) ==
  IF i = 0 \/ d.exc # "none" \/ sales_history.kind # "list" THEN
    /\ last' = Call("remove_car", "False", vin, 0)
    /\ UNCHANGED <<inventory, sales_history, added, now>>
  ELSE
    /\ now' = IF Len(sales_history.items) < MaxSales THEN t ELSE now
    /\ sales_history' =
         [sales_history EXCEPT
            !.items = <<[d.d EXCEPT !.sale_date = DateStr(now')]>>]
    /\ inventory' = Without(inventory, key)
    /\ added' = added \ {key}
    /\ last' = Call("remove_car", "True", vin, i)

\* the body of remove_car: i the car found, key the normalised vin, d the
\* outcome of to_dict, t the value of datetime.now().  to_dict and the append
\* can raise, and both come before the inventory is rebuilt.  The clock value
\* is kept only in the record that is appended.
Sell(i, vin, key, d, t) ==
  IF i = 0 THEN
    /\ last' = Call("remove_car", "False", vin, 0)
    /\ UNCHANGED <<inventory, sales_history, added, now>>
  ELSE IF d.exc # "none" THEN
    /\ last' = Call("remove_car", d.exc, vin, i)
    /\ UNCHANGED <<inventory, sales_history, added, now>>
  ELSE IF sales_history.kind # "list" THEN
    /\ last' = Call("remove_car", "AttributeError", vin, i)
    /\ UNCHANGED <<inventory, sales_history, added, now>>
  ELSE
    /\ Len(sales_history.items) < MaxSales
    /\ now' = t
    /\ sales_history' =
         [sales_history EXCEPT
            !.items = Append(@, [d.d EXCEPT !.sale_date = DateStr(t)])]
    /\ inventory' = Without(inventory, key)
    /\ added' = added \ {key}
    /\ last' = Call("remove_car", "True", vin, i)

SellFound(i, vin, key, t) ==
  Sell(i, vin, key, IF i = 0 THEN to_dict(NoCar) ELSE to_dict(inventory[i]), t)

\* remove_car(vin), the same in both modules
remove_car(vin, t) ==
  /\ pc = "ready"
  /\ SellFound(find_car_by_vin(inventory, vin), vin, NormOf[vin], t)
  /\ UNCHANGED <<impl, pc, inv_file, sales_file, trial, flow>>

(***************************************************************************)
(* dealer_manager.py and dealer_app.py: searching.                         *)
(***************************************************************************)
\* a match that compares the query with make and model as they are stored
MatchesCaseSensitive(q, car) == Contains(q, car.make) \/ Contains(q, car.model)

\* query in car.make.lower() or query in car.model.lower()
Matches(q, car) ==
  Contains(q, lower(car.make)) \/ Contains(q, lower(car.model))

\* [car for car in self.inventory if ...]
RECURSIVE Matching(_, _)
Matching(inv, q) ==
  IF inv = <<>> THEN <<>>
  ELSE IF Matches(q, Head(inv)) THEN <<Head(inv)>> \o Matching(Tail(inv), q)
  ELSE Matching(Tail(inv), q)

\* the list search_cars returns for the normalized query q: dealer_app
\* returns self.inventory itself when q is empty
Results(m, inv, q) ==
  IF m = "dealer_app" /\ q = <<>> THEN inv ELSE Matching(inv, q)

\* search_cars(query): query.lower().strip(), then the list of matches
search_cars(query) ==
  /\ pc = "ready"
  /\ last' = [Call("search_cars", "list", query, 0) EXCEPT
                !.out = Results(impl, inventory, strip(lower(query)))]
  /\ UNCHANGED <<impl, pc, inv_file, sales_file, inventory, sales_history, now,
                 added, trial, flow>>

(***************************************************************************)
(* dealer_app.py: the sales report.                                        *)
(***************************************************************************)
\* sum(record['price'] for record in self.sales_history)
RECURSIVE SumPrices(_)
SumPrices(items) ==
  IF items = <<>> THEN 0 ELSE Head(items).price.n + SumPrices(Tail(items))

\* what the generator of that sum raises: iterating a number or indexing a
\* key of a dict or an item that is no object with 'price' is a TypeError, a
\* record without the key a KeyError, adding a price that is no number a
\* TypeError
SumRaises(h) ==
  IF h.kind # "list" THEN "TypeError"
  ELSE IF \E i \in 1..Len(h.items) : ~h.items[i].obj THEN "TypeError"
  ELSE IF \E i \in 1..Len(h.items) : "price" \notin h.items[i].keys
       THEN "KeyError"
  ELSE IF \E i \in 1..Len(h.items) : h.items[i].price.t # "num"
       THEN "TypeError"
  ELSE "none"

\* a report that answers from figures taken when the manager was constructed
\* on an empty log
ReportStale(h) == Call("get_sales_report", "dict", <<>>, 0)

\* the dict get_sales_report returns
Report(h) ==
  [Call("get_sales_report", "dict", <<>>, 0) EXCEPT
     !.sold = Len(h.items), !.revenue = SumPrices(h.items),
     !.out = reversed(h.items)]

\* get_sales_report(): defined in dealer_app only; on a dealer_manager
\* DealerManager the attribute lookup raises AttributeError.
get_sales_report ==
  /\ pc = "ready"
  /\ last' = IF impl # "dealer_app"
             THEN Call("get_sales_report", "AttributeError", <<>>, 0)
             ELSE IF SumRaises(sales_history) # "none"
             THEN Call("get_sales_report", SumRaises(sales_history), <<>>, 0)
             ELSE Report(sales_history)
  /\ UNCHANGED <<impl, pc, inv_file, sales_file, inventory, sales_history, now,
                 added, trial, flow>>

(***************************************************************************)
(* dealer_manager.py and dealer_app.py: saving.                            *)
(***************************************************************************)
\* the types json.dump encodes: str, int / float, None
Encodable(v) == v.t \in {"str", "datestr", "isostr", "num", "half", "null"}

EncodableItem(d) ==
  ~d.obj \/ /\ Encodable(d.make) /\ Encodable(d.model) /\ Encodable(d.year)
            /\ Encodable(d.price) /\ Encodable(d.vin)
            /\ Encodable(d.image_url) /\ Encodable(d.sale_date)

\* with open(path, 'w') as f: json.dump(obj, f): the file after the call and
\* the exception raised.  io is what the file system does: "ok"; "open": open
\* raises IOError and the file is left as it was; "write": the file is
\* truncated by open and a write raises IOError.  A value json cannot encode
\* is a TypeError, raised after open truncated the file.
json_dump(kind, items, f, io) ==
  CASE io = "open" -> [exc |-> "IOError", f |-> f]
    [] io = "write" -> [exc |-> "IOError", f |-> File("unparsable", <<>>)]
    [] OTHER ->
         IF \A i \in 1..Len(items) : EncodableItem(items[i])
         THEN [exc |-> "none", f |-> File(kind, items)]
         ELSE [exc |-> "TypeError", f |-> File("unparsable", <<>>)]

IoOutcomes == {"ok", "open", "write"}

\* the return value of a save: True, False on IOError, otherwise the
\* exception, which is not caught
Saved(r) ==
  CASE r.exc = "none" -> "True"
    [] r.exc = "IOError" -> "False"
    [] OTHER -> r.exc

\* data = [car.to_dict() for car in self.inventory]
Dicts(inv) == [i \in 1..Len(inv) |-> to_dict(inv[i])]

\* a save that empties the inventory when the write fails
SaveForgetting(ds, r) ==
  /\ inv_file' = r.f
  /\ last' = Call("save_data", Saved(r), <<>>, 0)
  /\ inventory' = IF r.exc = "none" THEN inventory ELSE <<>>

\* the try block of save_data
SaveKeeping(ds, r) ==
  /\ inv_file' = r.f
  /\ last' = Call("save_data", Saved(r), <<>>, 0)
  /\ UNCHANGED inventory

\* save_data, the same in both modules: to_dict runs before the file is
\* opened and its exception is not caught.
SaveInventory(io) ==
  LET ds == Dicts(inventory)
  IN  IF \E i \in 1..Len(ds) : ds[i].exc # "none"
      THEN /\ last' = Call("save_data", "AttributeError", <<>>, 0)
           /\ UNCHANGED <<inv_file, inventory>>
      ELSE SaveKeeping(ds, json_dump("list", [i \in 1..Len(ds) |-> ds[i].d],
                                     inv_file, io))

save_data(io) ==
  /\ pc = "ready"
  /\ SaveInventory(io)
  /\ UNCHANGED <<impl, pc, sales_file, sales_history, now, added, trial, flow>>

\* save_sales_history, the same in both modules
SaveLog(io) ==
  LET r == json_dump(sales_history.kind, sales_history.items, sales_file, io)
  IN  /\ sales_file' = r.f
      /\ last' = Call("save_sales_history", Saved(r), <<>>, 0)

save_sales_history(io) ==
  /\ pc = "ready"
  /\ SaveLog(io)
  /\ UNCHANGED <<impl, pc, inv_file, inventory, sales_history, now, added,
                 trial, flow>>

(***************************************************************************)
(* Inputs.                                                                 *)
(***************************************************************************)
VinInputs == {Padded(lower(V17("A"))), lower(V17("B")), V17("C")}

InA == Raw(Str(<<"b","m","w">>), Str(<<"x","5">>), Num(2021), Num(55000),
           Str(V17("A")), Str(<<"i">>))
InA2 == Raw(Str(<<"b","m","w">>), Str(<<"x","5">>), Num(2022), Num(60000),
            Str(Padded(lower(V17("A")))), Str(<<>>))
InB == Raw(Str(<<" ","f","o","r","d">>), Str(<<"k","a">>),
           Str(<<"2","0","1","8">>), Num(15000), Str(lower(V17("B"))),
           Str(<<" ">>))

AddInputs == {InA, InA2, InB}

PriceInputs == {Null, Num(60000), Num(-5)}
YearInputs == {Null, Num(2022), Num(1800)}
ImageInputs == {Null, Str(<<" ">>)}

\* the calls of edit_car: every combination of new values for the VIN that can
\* be in the inventory, one call for the VIN that never is
EditCalls ==
  ({Padded(lower(V17("A")))} \X PriceInputs \X YearInputs)
  \cup {<<V17("C"), Num(60000), Null>>}
AppEditCalls ==
  ({Padded(lower(V17("A")))} \X PriceInputs \X YearInputs \X ImageInputs)
  \cup {<<V17("C"), Num(60000), Null, Null>>}

\* records of an inventory file
Rec(a) == JObj(CarKeys, a.make, a.model, a.year, a.price, a.vin, a.image_url,
               Null)
RecA == Rec(InA)
RecA2 == Rec(InA2)
RecNullImage == [RecA EXCEPT !.vin = Str(V17("B")), !.image_url = Null]
RecMissingKey == [RecA EXCEPT !.vin = Str(V17("B")), !.keys = CarKeys \ {"make"}]
RecExtraKey == [RecA EXCEPT !.vin = Str(V17("B")), !.keys = CarKeys \cup {"color"}]
RecBadYear == [RecA EXCEPT !.vin = Str(V17("B")), !.year = Num(1899)]

InvRecords == {RecA, RecA2, RecNullImage, RecMissingKey, RecExtraKey,
               RecBadYear, NoObj}

SeqsUpTo(S, n) == UNION {[1..k -> S] : k \in 0..n}

InvFiles ==
  {File("missing", <<>>), File("unparsable", <<>>), File("scalar", <<>>),
   File("dict", <<NoObj>>)}
  \cup {File("list", items) : items \in SeqsUpTo(InvRecords, MaxFileLen)}

\* a record of a sales file
SaleC == JObj(CarKeys, Str(<<"K","i","a">>), Str(<<"R","i","o">>), Num(2019),
              Num(9000), Str(V17("C")), Str(<<"z">>), DateStr(0))

SalesFiles ==
  {File("missing", <<>>), File("unparsable", <<>>), File("scalar", <<>>),
   File("dict", <<NoObj>>), File("list", <<>>), File("list", <<NoObj>>),
   File("list", <<SaleC>>)}

(***************************************************************************)
(* Specification.                                                          *)
(***************************************************************************)
Blank ==
  /\ pc = "start"
  /\ inventory = <<>>
  /\ sales_history = EmptyList
  /\ now = 0
  /\ last = Call("none", "None", <<>>, 0)
  /\ added = {}
  /\ trial = NoTrial
  /\ flow = NoFlow

\* the files the operations start from
Init ==
  /\ impl \in {"dealer_manager", "dealer_app"}
  /\ inv_file \in {File("missing", <<>>), File("list", <<RecA, RecA2>>)}
  /\ sales_file \in {File("missing", <<>>), File("dict", <<NoObj>>)}
  /\ Blank

\* every file, for the constructor
LoadInit ==
  /\ impl \in {"dealer_manager", "dealer_app"}
  /\ inv_file \in InvFiles
  /\ sales_file \in SalesFiles
  /\ Blank

Find == \E v \in VinInputs : FindCar(v)

\* the caller constructs the Car and passes it to add_car
NewCar(a) == Car(a.make, a.model, a.year, a.price, a.vin, a.image_url, Null)
AddCars == {NewCar(a).car : a \in {b \in AddInputs : NewCar(b).exc = "none"}}

Add == \E car \in AddCars : add_car(car)

Edit == \E c \in EditCalls : edit_car(c[1], c[2], c[3])

AppEdit == \E c \in AppEditCalls : app_edit_car(c[1], c[2], c[3], c[4])

\* the clock never runs backwards: a sale happens after the second the
\* manager was constructed in (0), in the second of the sale before it or later
Remove == \E v \in VinInputs, t \in (now..(now + 1)) \ {0} : remove_car(v, t)

Next == __init__ \/ Find \/ Add \/ Edit \/ AppEdit \/ Remove

Spec == Init /\ [][Next]_vars

LoadNext == __init__ \/ Find \/ Remove

LoadSpec == LoadInit /\ [][LoadNext]_vars

\* a car whose VIN has 17 characters before it is upper-cased
InEszett == Raw(Str(<<"k","i","a">>), Str(<<"r","i","o">>), Num(2019),
                Num(9000), Str(EszettVin), Str(<<>>))
SaveCars == {NewCar(InA).car, NewCar(InEszett).car}

\* changing and saving the inventory: the files start missing or hold one
\* earlier record
SaveInit ==
  /\ impl \in {"dealer_manager", "dealer_app"}
  /\ inv_file \in {File("missing", <<>>), File("list", <<RecExtraKey>>)}
  /\ sales_file \in {File("missing", <<>>), File("list", <<SaleC>>)}
  /\ Blank

SaveAdd == \E car \in SaveCars : add_car(car)
SaveEdit ==
  \/ edit_car(Padded(lower(V17("A"))), Num(60000), Null)
  \/ app_edit_car(Padded(lower(V17("A"))), Num(60000), Null, Null)
SaveData == \E io \in IoOutcomes : save_data(io)
SaveSales == \E io \in IoOutcomes : save_sales_history(io)

SaveNext == __init__ \/ SaveAdd \/ SaveEdit \/ Remove \/ SaveData

SaveSpec == SaveInit /\ [][SaveNext]_vars

\* selling and saving both files: the inventory file holds two vehicles, the
\* sales file is missing or holds one earlier record
RecB == Rec(InB)
SaleD == [SaleC EXCEPT !.vin = Str(V17("B")), !.price = Num(7000)]

PersistInit ==
  /\ impl \in {"dealer_manager", "dealer_app"}
  /\ inv_file = File("list", <<RecA, RecB>>)
  /\ sales_file \in {File("missing", <<>>), File("list", <<SaleC>>),
                     File("list", <<SaleC, SaleD>>)}
  /\ Blank

PersistNext == __init__ \/ Remove \/ SaveData \/ SaveSales

PersistSpec == PersistInit /\ [][PersistNext]_vars

\* searching an inventory that is loaded, added to and sold from
Queries ==
  {<<>>, <<" ", " ">>, <<"b","m","w">>, <<" ","B","M"," ">>, <<"K","A">>,
   <<"o">>, <<"x","5"," ">>, <<"z","z">>}

Search == \E q \in Queries : search_cars(q)

SearchNext == __init__ \/ Add \/ Remove \/ Search

SearchSpec == Init /\ [][SearchNext]_vars

\* every operation on a manager whose log is empty or holds an earlier sale
LogInit ==
  /\ impl \in {"dealer_manager", "dealer_app"}
  /\ inv_file \in {File("missing", <<>>), File("list", <<RecA, RecB>>)}
  /\ sales_file \in {File("missing", <<>>), File("list", <<SaleC>>)}
  /\ Blank

\* an edit of price and year in each module, a dealer_app edit that fails at
\* the year, and two queries
LogEdit ==
  \/ edit_car(Padded(lower(V17("A"))), Num(60000), Num(2022))
  \/ app_edit_car(Padded(lower(V17("A"))), Num(60000), Num(2022),
                  Str(<<" ">>))
  \/ app_edit_car(Padded(lower(V17("A"))), Num(60000), Num(1800), Null)
LogSearch == \E q \in {<<>>, <<"b", "m", "w">>} : search_cars(q)

LogNext ==
  __init__ \/ Add \/ LogEdit \/ Remove \/ LogSearch \/ get_sales_report

LogSpec == LogInit /\ [][LogNext]_vars

\* editing vehicles of a loaded inventory, one VIN possibly stored twice
EditInit ==
  /\ impl \in {"dealer_manager", "dealer_app"}
  /\ inv_file \in {File("list", <<RecA, RecB>>), File("list", <<RecB, RecA>>),
                   File("list", <<RecA, RecA2>>)}
  /\ sales_file \in {File("missing", <<>>), File("list", <<SaleC>>)}
  /\ Blank

EditNext == __init__ \/ Edit \/ AppEdit \/ Remove

EditSpec == EditInit /\ [][EditNext]_vars

\* reporting on a log that is loaded and then extended by sales; the sales
\* file holds records sold before the manager was constructed
SaleOld == [SaleD EXCEPT !.sale_date = DateStr(-1)]

ReportInit ==
  /\ impl \in {"dealer_manager", "dealer_app"}
  /\ inv_file = File("list", <<RecA, RecB>>)
  /\ sales_file \in {File("missing", <<>>), File("list", <<>>),
                     File("list", <<SaleC>>),
                     File("list", <<SaleOld, SaleC>>),
                     File("list", <<SaleC, SaleOld>>)}
  /\ Blank

ReportNext == __init__ \/ Add \/ Remove \/ get_sales_report

ReportSpec == ReportInit /\ [][ReportNext]_vars

(***************************************************************************)
(* Specification of class Car: a caller constructs a Car from arguments,   *)
(* serializes it, constructs a Car from the mapping and serializes that.   *)
(***************************************************************************)
MakeInputs == {Str(<<"b","m","w">>), Str(<<" ","f","o","r","d"," ">>),
               Str(<<Eszett, "a">>), Str(<<" ">>), Str(<<>>), Null}
ModelInputs == {Str(<<"x","5">>), Str(<<>>)}
CarYearInputs ==
  {Num(MinYear - 1), Num(MinYear), Num(2021), Num(CurrentYear + YearSlack),
   Num(CurrentYear + YearSlack + 1), Str(<<"2","0","2","1">>),
   Str(<<"a","b","c">>), Null, Half(2021)}
CarPriceInputs ==
  {Num(55000), Num(0), Num(-5), Str(<<"5","5","0","0","0">>),
   Str(<<"a","b","c">>), Null}
CarVinInputs ==
  {Str(V17("A")), Str(Padded(lower(V17("A")))), Str(EszettVin),
   Str(<<"S","H","O","R","T">>), Str(<<>>)}
CarImageInputs == {Str(<<>>), Str(<<" ">>), Str(<<" ","i"," ">>), Null}
SaleDateInputs == {Null, DateTime(1)}

CarInputs ==
  {Raw(mk, md, y, p, v, im) :
     mk \in MakeInputs, md \in ModelInputs, y \in CarYearInputs,
     p \in CarPriceInputs, v \in CarVinInputs, im \in CarImageInputs}

mgr == <<impl, pc, inv_file, sales_file, inventory, sales_history, now, last,
         added, flow>>

CarInit ==
  /\ impl = "dealer_manager"
  /\ inv_file = File("missing", <<>>)
  /\ sales_file = File("missing", <<>>)
  /\ pc = "start"
  /\ inventory = <<>>
  /\ sales_history = EmptyList
  /\ now = 0
  /\ last = Call("none", "None", <<>>, 0)
  /\ added = {}
  /\ flow = NoFlow
  /\ trial \in {Trial("args", a, sd) : a \in CarInputs, sd \in SaleDateInputs}

\* car = Car(make, model, year, price, vin, image_url, sale_date)
Build ==
  /\ trial.stage = "args"
  /\ trial' = [trial EXCEPT
                 !.stage = "built",
                 !.first = Car(trial.args.make, trial.args.model,
                               trial.args.year, trial.args.price,
                               trial.args.vin, trial.args.image_url,
                               trial.sale_date)]
  /\ UNCHANGED mgr

\* d = car.to_dict()
Serialize ==
  /\ trial.stage = "built" /\ trial.first.exc = "none"
  /\ trial' = [trial EXCEPT !.stage = "dict", !.d = to_dict(trial.first.car)]
  /\ UNCHANGED mgr

\* Car(**d): every key of the mapping is passed as a keyword argument
FromMapping(d) ==
  Car(d.make, d.model, d.year, d.price, d.vin, d.image_url, d.sale_date)

Rebuild ==
  /\ trial.stage = "dict" /\ trial.d.exc = "none"
  /\ trial' = [trial EXCEPT !.stage = "rebuilt",
                            !.second = FromMapping(trial.d.d)]
  /\ UNCHANGED mgr

\* Car(**d).to_dict()
Reserialize ==
  /\ trial.stage = "rebuilt" /\ trial.second.exc = "none"
  /\ trial' = [trial EXCEPT !.stage = "done",
                            !.d2 = to_dict(trial.second.car)]
  /\ UNCHANGED mgr

CarNext == Build \/ Serialize \/ Rebuild \/ Reserialize

CarSpec == CarInit /\ [][CarNext]_vars

(***************************************************************************)
(* app.py, web_app.py, main.py, dealer_app.py: the programs that call the  *)
(* manager.  A handler is followed call by call: the manager call that     *)
(* starts it, then each save, with what the user has been told so far.     *)
(***************************************************************************)
Callers == {"app", "web_app", "main", "dealer_app"}

\* app.py, web_app.py and main.py import dealer_manager; the main() of
\* dealer_app.py uses the class of its own module
ManagerOf(c) == IF c = "dealer_app" THEN "dealer_app" ELSE "dealer_manager"

\* the web handlers call save_data after add_car; the CLI menus do not
SavesAfterAdd(c) == c \in {"app", "web_app"}

\* the CLI menus print SUCCESS right after remove_car, before the saves
TellsBeforeSaving(c) == c \in {"main", "dealer_app"}

\* main.py keeps both results and prints a WARNING when one is False
ChecksSaves(c) == c = "main"

\* a handler: the operation it serves, the statement it is at, the VIN, was
\* the VIN in the inventory file when it started, did a save return False,
\* the messages shown
Flow(c, op, at) ==
  [caller |-> c, op |-> op, at |-> at, vin |-> <<>>, infile |-> FALSE,
   failed |-> FALSE, told |-> {}]

\* a file holds a record of the VIN
InFile(f, vin) ==
  /\ f.kind = "list"
  /\ \E i \in 1..Len(f.items) : f.items[i].obj /\ f.items[i].vin = Str(vin)

\* the sell handlers: manager.remove_car(vin), then the message or the saves
SellStart(v, t) ==
  /\ pc = "ready" /\ flow.at = "idle"
  /\ SellFound(find_car_by_vin(inventory, v), v, NormOf[v], t)
  /\ flow' = [Flow(flow.caller, "sell",
                   IF last'.ret = "True" THEN "save_data" ELSE "idle")
                EXCEPT !.vin = NormOf[v],
                       !.infile = InFile(inv_file, NormOf[v]),
                       !.told = IF last'.ret # "True" THEN {"error"}
                                ELSE IF TellsBeforeSaving(flow.caller)
                                THEN {"success"} ELSE {}]
  /\ UNCHANGED <<impl, pc, inv_file, sales_file, trial>>

\* the add handlers: manager.add_car(new_car), then the message or save_data
AddStart(car) ==
  /\ pc = "ready" /\ flow.at = "idle"
  /\ AddOrReject(car, find_car_by_vin(inventory, car.vin))
  /\ flow' = [Flow(flow.caller, "add",
                   IF last'.ret = "True" /\ SavesAfterAdd(flow.caller)
                   THEN "save_data" ELSE "idle")
                EXCEPT !.vin = car.vin,
                       !.told = IF last'.ret # "True" THEN {"error"}
                                ELSE IF SavesAfterAdd(flow.caller) THEN {}
                                ELSE {"success"}]
  /\ UNCHANGED <<impl, pc, inv_file, sales_file, sales_history, now, trial>>

\* the edit handlers of app.py, web_app.py and main.py: find_car_by_vin, then
\* manager.edit_car(vin, new_price=..., new_year=..., new_image_url=...), a
\* keyword dealer_manager.edit_car does not have: TypeError, nothing is
\* changed and save_data is not reached
EditStart(v) ==
  /\ pc = "ready" /\ flow.at = "idle" /\ flow.caller # "dealer_app"
  /\ last' = Call("edit_car",
                  IF find_car_by_vin(inventory, v) = 0 THEN "None"
                  ELSE "TypeError", v, find_car_by_vin(inventory, v))
  /\ flow' = [Flow(flow.caller, "edit", "idle")
                EXCEPT !.vin = NormOf[v], !.told = {"error"}]
  /\ UNCHANGED <<impl, pc, inv_file, sales_file, inventory, sales_history,
                 now, added, trial>>

\* manager.save_data() in a handler: the web handlers drop the result and
\* flash success, an add handler is finished after it
FlowSaveData(io) ==
  /\ pc = "ready" /\ flow.at = "save_data"
  /\ SaveInventory(io)
  /\ flow' = [flow EXCEPT
                !.failed = (last'.ret = "False"),
                !.at = IF flow.op = "sell" THEN "save_sales" ELSE "idle",
                !.told = IF flow.op = "sell" THEN @ ELSE {"success"}]
  /\ UNCHANGED <<impl, pc, sales_file, sales_history, now, added, trial>>

\* manager.save_sales_history() in a sell handler, and the message after it
FlowSaveSales(io) ==
  /\ pc = "ready" /\ flow.at = "save_sales"
  /\ SaveLog(io)
  /\ flow' = [flow EXCEPT
                !.failed = (@ \/ last'.ret = "False"),
                !.at = "idle",
                !.told = IF ChecksSaves(flow.caller)
                         THEN (IF flow.failed \/ last'.ret = "False"
                               THEN @ \cup {"warning"} ELSE @)
                         ELSE IF TellsBeforeSaving(flow.caller) THEN @
                         ELSE {"success"}]
  /\ UNCHANGED <<impl, pc, inv_file, inventory, sales_history, now, added,
                 trial>>

\* the process is stopped while a handler has saves left to make
Stop ==
  /\ flow.at \in {"save_data", "save_sales"}
  /\ flow' = [flow EXCEPT !.at = "stopped"]
  /\ UNCHANGED <<impl, pc, inv_file, sales_file, inventory, sales_history,
                 now, last, added, trial>>

\* one of the four programs on an inventory file of two vehicles
FlowInit ==
  /\ \E c \in Callers : impl = ManagerOf(c) /\ flow = Flow(c, "none", "idle")
  /\ inv_file = File("list", <<RecA, RecB>>)
  /\ sales_file \in {File("missing", <<>>), File("list", <<>>)}
  /\ pc = "start"
  /\ inventory = <<>>
  /\ sales_history = EmptyList
  /\ now = 0
  /\ last = Call("none", "None", <<>>, 0)
  /\ added = {}
  /\ trial = NoTrial

FlowAdd == \E car \in AddCars : AddStart(car)
FlowSell == \E v \in VinInputs, t \in (now..(now + 1)) \ {0} : SellStart(v, t)
FlowEdit == EditStart(Padded(lower(V17("A"))))
FlowSaveInventory == \E io \in IoOutcomes : FlowSaveData(io)
FlowSaveLog == \E io \in IoOutcomes : FlowSaveSales(io)

FlowNext ==
  \/ __init__ \/ FlowAdd \/ FlowSell \/ FlowEdit
  \/ FlowSaveInventory \/ FlowSaveLog \/ Stop

FlowSpec == FlowInit /\ [][FlowNext]_vars

(***************************************************************************)

(* A caller that counts the calls that returned True.                      *)
(***************************************************************************)
Tally(adds, removes) == [at |-> "count", adds |-> adds, removes |-> removes]

\* 1 for a call that returned True
Returned1(ret) == IF ret = "True" THEN 1 ELSE 0

CountAdd(car) ==
  /\ pc = "ready" /\ flow.at = "count"
  /\ AddOrReject(car, find_car_by_vin(inventory, car.vin))
  /\ flow' = [flow EXCEPT !.adds = @ + Returned1(last'.ret)]
  /\ UNCHANGED <<impl, pc, inv_file, sales_file, sales_history, now, trial>>

CountRemove(v, t) ==
  /\ pc = "ready" /\ flow.at = "count"
  /\ SellFound(find_car_by_vin(inventory, v), v, NormOf[v], t)
  /\ flow' = [flow EXCEPT !.removes = @ + Returned1(last'.ret)]
  /\ UNCHANGED <<impl, pc, inv_file, sales_file, trial>>

\* edit_car of the manager's module; the caller counts nothing
CountEdit(v, new_price, new_year, new_image_url) ==
  /\ pc = "ready" /\ flow.at = "count"
  /\ IF impl = "dealer_manager"
     THEN EditFound(find_car_by_vin(inventory, v), v, new_price, new_year)
     ELSE AppEditFound(find_car_by_vin(inventory, v), v, new_price, new_year,
                       new_image_url)
  /\ UNCHANGED <<impl, pc, inv_file, sales_file, sales_history, now, added,
                 trial, flow>>

\* no persisted files
TallyInit ==
  /\ impl \in {"dealer_manager", "dealer_app"}
  /\ inv_file = File("missing", <<>>)
  /\ sales_file = File("missing", <<>>)
  /\ flow = Tally(0, 0)
  /\ pc = "start"
  /\ inventory = <<>>
  /\ sales_history = EmptyList
  /\ now = 0
  /\ last = Call("none", "None", <<>>, 0)
  /\ added = {}
  /\ trial = NoTrial

TallyAdd == \E car \in AddCars \cup SaveCars : CountAdd(car)
TallyRemove ==
  \E v \in VinInputs \cup {EszettVin}, t \in (now..(now + 1)) \ {0} :
    CountRemove(v, t)
TallyEdit ==
  \E c \in {<<Num(60000), Null, Null>>, <<Num(60000), Num(1800), Null>>,
            <<Null, Num(2022), Str(<<" ">>)>>} :
    CountEdit(Padded(lower(V17("A"))), c[1], c[2], c[3])

TallyNext == __init__ \/ TallyAdd \/ TallyRemove \/ TallyEdit

TallySpec == TallyInit /\ [][TallyNext]_vars

(***************************************************************************)

(* app.py, web_app.py: two request handlers on the module-level manager.   *)
(* Each thread makes one call; a call is followed statement by statement,  *)
(* and the other thread can run between two statements: nothing in         *)
(* add_car or remove_car holds a lock.                                     *)
(***************************************************************************)
\* a thread: the method it calls, the statement it is at, its argument (a
\* Car for add_car, a VIN for remove_car), the local variable holding what
\* find_car_by_vin returned, and the result
Thread(op, arg) ==
  [op |-> op, pc |-> "call", arg |-> arg, found |-> NoCar, hit |-> FALSE,
   ret |-> "None"]

Threads(t1, t2) == [at |-> "threads", th |-> <<t1, t2>>]

\* the VIN a thread looks up
VinOf(th) == IF th.op = "add_car" THEN th.arg.vin ELSE NormOf[th.arg]

\* self.find_car_by_vin(...): the thread keeps the Car object it was given
RaceFind(k) ==
  /\ pc = "ready" /\ flow.at = "threads" /\ flow.th[k].pc = "call"
  /\ LET i == FirstWith(inventory, VinOf(flow.th[k]))
     IN  flow' = [flow EXCEPT
                    !.th[k].pc = "found",
                    !.th[k].hit = (i # 0),
                    !.th[k].found = IF i = 0 THEN NoCar ELSE inventory[i]]
  /\ UNCHANGED <<impl, pc, inv_file, sales_file, inventory, sales_history,
                 now, last, added, trial>>

\* the rest of add_car: return False, or self.inventory.append(car) and
\* return True
RaceAppend(k) ==
  /\ pc = "ready" /\ flow.at = "threads"
  /\ flow.th[k].pc = "found" /\ flow.th[k].op = "add_car"
  /\ IF flow.th[k].hit
     THEN /\ flow' = [flow EXCEPT !.th[k].pc = "done", !.th[k].ret = "False"]
          /\ last' = Call("add_car", "False", flow.th[k].arg.vin, 0)
          /\ UNCHANGED <<inventory, added>>
     ELSE /\ flow' = [flow EXCEPT !.th[k].pc = "done", !.th[k].ret = "True"]
          /\ last' = Call("add_car", "True", flow.th[k].arg.vin, 0)
          /\ inventory' = Append(inventory, flow.th[k].arg)
          /\ added' = added \cup {flow.th[k].arg.vin}
  /\ UNCHANGED <<impl, pc, inv_file, sales_file, sales_history, now, trial>>

\* remove_car after the lookup: return False, or to_dict, the sale_date and
\* self.sales_history.append(sale_record)
RaceLog(k, t) ==
  /\ pc = "ready" /\ flow.at = "threads"
  /\ flow.th[k].pc = "found" /\ flow.th[k].op = "remove_car"
  /\ IF ~flow.th[k].hit
     THEN /\ flow' = [flow EXCEPT !.th[k].pc = "done", !.th[k].ret = "False"]
          /\ last' = Call("remove_car", "False", flow.th[k].arg, 0)
          /\ UNCHANGED <<sales_history, now>>
     ELSE /\ flow' = [flow EXCEPT !.th[k].pc = "logged"]
          /\ sales_history' =
               [sales_history EXCEPT
                  !.items = Append(@, [to_dict(flow.th[k].found).d
                                         EXCEPT !.sale_date = DateStr(t)])]
          /\ now' = t
          /\ UNCHANGED last
  /\ UNCHANGED <<impl, pc, inv_file, sales_file, inventory, added, trial>>

\* the end of remove_car: the inventory is rebuilt without the VIN, True
RaceRebuild(k) ==
  /\ pc = "ready" /\ flow.at = "threads" /\ flow.th[k].pc = "logged"
  /\ inventory' = Without(inventory, VinOf(flow.th[k]))
  /\ added' = added \ {VinOf(flow.th[k])}
  /\ flow' = [flow EXCEPT !.th[k].pc = "done", !.th[k].ret = "True"]
  /\ last' = Call("remove_car", "True", flow.th[k].arg, 0)
  /\ UNCHANGED <<impl, pc, inv_file, sales_file, sales_history, now, trial>>

\* two requests arrive: each adds a vehicle or sells a VIN
ThreadInputs ==
  {Thread("add_car", car) : car \in AddCars}
  \cup {Thread("remove_car", v) : v \in VinInputs}

RaceInit ==
  /\ impl = "dealer_manager"
  /\ inv_file \in {File("missing", <<>>), File("list", <<RecA, RecB>>)}
  /\ sales_file = File("missing", <<>>)
  /\ flow \in {Threads(t1, t2) : t1 \in ThreadInputs, t2 \in ThreadInputs}
  /\ pc = "start"
  /\ inventory = <<>>
  /\ sales_history = EmptyList
  /\ now = 0
  /\ last = Call("none", "None", <<>>, 0)
  /\ added = {}
  /\ trial = NoTrial

Find12 == \E k \in {1, 2} : RaceFind(k)
Append12 == \E k \in {1, 2} : RaceAppend(k)
Log12 == \E k \in {1, 2}, t \in (now..(now + 1)) \ {0} : RaceLog(k, t)
Rebuild12 == \E k \in {1, 2} : RaceRebuild(k)

RaceNext == __init__ \/ Find12 \/ Append12 \/ Log12 \/ Rebuild12

RaceSpec == RaceInit /\ [][RaceNext]_vars

(***************************************************************************)

(* Properties.                                                             *)
(***************************************************************************)
HasVin(inv, key) == \E i \in 1..Len(inv) : inv[i].vin = key
InvalidPrice(p) == p.t # "null" /\ (ToNum(p).exc # "none" \/ ToNum(p).n <= 0)
InvalidYear(y) ==
  y.t # "null" /\ (ToNum(y).exc # "none" \/ ToNum(y).n < MinYear
                   \/ ToNum(y).n > CurrentYear + YearSlack)

\* C1: once the manager is constructed, and after every add_car, edit_car and
\* remove_car, no two inventory entries have the same normalized VIN.
C1_UniqueVins ==
  pc = "ready" =>
    \A i, j \in 1..Len(inventory) :
      i # j => Norm(inventory[i].vin) # Norm(inventory[j].vin)

\* C2: remove_car of a VIN present in the inventory returns True, shrinks the
\* inventory by exactly one entry, grows the sales log by exactly one record,
\* and that last record carries the normalized VIN and a sale_date.
C2_RemoveSellsOne ==
  [][(last'.op = "remove_car" /\ HasVin(inventory, Norm(last'.vin))) =>
       /\ last'.ret = "True"
       /\ Len(inventory') = Len(inventory) - 1
       /\ sales_history'.kind = "list"
       /\ Len(sales_history'.items) = Len(sales_history.items) + 1
       /\ LET rec == sales_history'.items[Len(sales_history'.items)]
          IN  /\ rec.vin = Str(Norm(last'.vin))
              /\ "sale_date" \in rec.keys
              /\ rec.sale_date.t # "null"]_vars

\* C3: a remove_car call logs every entry it takes out of the inventory: the
\* number of entries that left equals the number of sale records appended, and
\* no appended record belongs to a VIN still in the inventory.
C3_RemoveAtomic ==
  [][last'.op = "remove_car" =>
       /\ Len(inventory) - Len(inventory')
            = Len(sales_history'.items) - Len(sales_history.items)
       /\ \A k \in (Len(sales_history.items) + 1)..Len(sales_history'.items) :
            ~HasVin(inventory', sales_history'.items[k].vin.s)]_vars

\* C4: an edit_car call for an existing VIN in which a provided price or year
\* fails validation leaves every field of every vehicle as it was.
C4_EditAllOrNothing ==
  [][/\ \A c \in EditCalls :
          (edit_car(c[1], c[2], c[3]) /\ HasVin(inventory, Norm(c[1]))
           /\ (InvalidPrice(c[2]) \/ InvalidYear(c[3])))
          => inventory' = inventory
     /\ \A c \in AppEditCalls :
          (app_edit_car(c[1], c[2], c[3], c[4]) /\ HasVin(inventory, Norm(c[1]))
           /\ (InvalidPrice(c[2]) \/ InvalidYear(c[3])))
          => inventory' = inventory]_vars

\* C5: edit_car for a VIN that is not in the inventory, or with an invalid new
\* price or year, returns False (it does not raise) and leaves the stored
\* prices and years as they were.
C5_EditFailureReturnsFalse ==
  [][(/\ last'.op = "edit_car"
      /\ \/ ~HasVin(inventory, Norm(last'.vin))
         \/ \E c \in AppEditCalls :
              /\ InvalidPrice(c[2]) \/ InvalidYear(c[3])
              /\ \/ edit_car(c[1], c[2], c[3])
                 \/ app_edit_car(c[1], c[2], c[3], c[4]))
     => /\ last'.ret = "False"
        /\ Len(inventory') = Len(inventory)
        /\ \A i \in 1..Len(inventory) :
             /\ inventory'[i].price = inventory[i].price
             /\ inventory'[i].year = inventory[i].year]_vars

\* C6: add_car of a vehicle whose normalized VIN is already in the inventory
\* returns False and leaves the inventory as it was: same entries, same order,
\* same field values.
C6_DuplicateAddRejected ==
  [][(last'.op = "add_car" /\ HasVin(inventory, Norm(last'.vin))) =>
       /\ last'.ret = "False"
       /\ inventory' = inventory]_vars

\* a duplicate add was rejected while another vehicle shares the inventory
C6_Witness ==
  /\ last.op = "add_car"
  /\ last.ret = "False"
  /\ HasVin(inventory, last.vin)
  /\ Len(inventory) = 2

\* C7: for every vehicle add_car accepted and that was not removed since,
\* find_car_by_vin with any case or whitespace variant of its VIN returns that
\* vehicle; for a VIN whose normalized form is not in the inventory it returns
\* None.
C7_FindByVinVariants ==
  pc = "ready" =>
    /\ \A v \in added : \A w \in Variants(v) :
         /\ find_car_by_vin(inventory, w) # 0
         /\ \A j \in 1..Len(inventory) :
              inventory[j].vin = v <=> j = find_car_by_vin(inventory, w)
    /\ \A w \in ProbeVins :
         ~HasVin(inventory, NormOf[w]) => find_car_by_vin(inventory, w) = 0
    /\ last.op = "find_car_by_vin" =>
         IF HasVin(inventory, Norm(last.vin))
         THEN /\ last.idx \in 1..Len(inventory)
              /\ inventory[last.idx].vin = Norm(last.vin)
         ELSE last.idx = 0 /\ last.ret = "None"

\* a vehicle accepted by add_car was found through a padded lower-case VIN
C7_Witness ==
  /\ last.op = "find_car_by_vin"
  /\ last.vin = Padded(lower(V17("A")))
  /\ V17("A") \in added
  /\ last.idx # 0
  /\ inventory[last.idx].vin = V17("A")

\* the records of a stored array that pass vehicle construction, in file order
RECURSIVE ValidCars(_, _)
ValidCars(m, items) ==
  IF items = <<>> THEN <<>>
  ELSE IF Construct(m, Head(items)).exc = "none"
       THEN <<Construct(m, Head(items)).car>> \o ValidCars(m, Tail(items))
       ELSE ValidCars(m, Tail(items))

\* C8: loading an inventory file that holds an array never raises: the
\* constructor returns, and the inventory holds exactly the records that pass
\* vehicle construction, in file order.
C8_LoadSkipsBadRecords ==
  (pc # "start" /\ inv_file.kind = "list") =>
    /\ pc = "ready"
    /\ last.op = "__init__" => inventory = ValidCars(impl, inv_file.items)

\* C9: whatever the inventory file holds (missing, unparsable, corrupt
\* records), the constructor still loads the sales log from a sales file that
\* holds an array; and the inventory does not depend on the sales file.
C9_LoadsIndependent ==
  (pc # "start" /\ inv_file.kind \in {"missing", "unparsable", "list"}) =>
    /\ sales_file.kind = "list" =>
         /\ pc = "ready"
         /\ last.op = "__init__" => sales_history = Json("list", sales_file.items)
    /\ (pc = "ready" /\ last.op = "__init__") =>
         inventory = _load_data(impl, inv_file).inv

\* a sales file that is not an array of sale objects
Malformed(f) ==
  \/ f.kind \in {"unparsable", "dict", "scalar"}
  \/ f.kind = "list" /\ \E k \in 1..Len(f.items) : ~f.items[k].obj

\* C10: after construction on a malformed sales file the sales log is the
\* empty list, and a later remove_car works on it without raising.
C10_MalformedSalesReset ==
  (pc = "ready" /\ Malformed(sales_file)) =>
    /\ last.op = "__init__" => sales_history = EmptyList
    /\ last.op = "remove_car" => last.ret \in {"True", "False"}

\* the fields of a vehicle that the inventory file keeps
SameVehicle(a, b) ==
  /\ a.make = b.make /\ a.model = b.model /\ a.year = b.year
  /\ a.price = b.price /\ a.vin = b.vin /\ a.image_url = b.image_url

\* inv holds exactly the vehicles of mem: as many, and for each VIN the same
\* fields
SameInventory(inv, mem) ==
  /\ Len(inv) = Len(mem)
  /\ \A i \in 1..Len(mem) : \E j \in 1..Len(inv) : SameVehicle(inv[j], mem[i])

\* C11: right after a save_data that returned True, a new DealerManager of the
\* same class constructed on the inventory file loads without an exception an
\* inventory with as many vehicles as the one in memory and, for each VIN, the
\* same make, model, year, price and image_url; nothing else is loaded.
C11_InventoryRoundTrip ==
  (pc = "ready" /\ last.op = "save_data" /\ last.ret = "True") =>
    /\ _load_data(impl, inv_file).exc = "none"
    /\ SameInventory(_load_data(impl, inv_file).inv, inventory)

\* C12: right after a save_sales_history that returned True, a new
\* DealerManager constructed on the sales file has a sales log with the same
\* records in the same order as the one in memory, each with its sale_date.
C12_SalesRoundTrip ==
  (pc = "ready" /\ last.op = "save_sales_history" /\ last.ret = "True") =>
    /\ _load_sales_history(sales_file) = sales_history
    /\ \A i \in 1..Len(sales_history.items) :
         /\ "sale_date" \in _load_sales_history(sales_file).items[i].keys
         /\ _load_sales_history(sales_file).items[i].sale_date
              = sales_history.items[i].sale_date
         /\ sales_history.items[i].sale_date.t = "datestr"

\* a log whose last record remove_car appended was saved and is in the file
C12_Witness ==
  /\ pc = "ready" /\ last.op = "save_sales_history" /\ last.ret = "True"
  /\ now > 0 /\ Len(sales_history.items) > 0
  /\ sales_history.items[Len(sales_history.items)].sale_date = DateStr(now)
  /\ sales_file = File("list", sales_history.items)

\* C13: save_data and save_sales_history return True when the file system
\* accepts the write, and the file then holds the serialized inventory or
\* log; they return False when open or write raises an I/O error; either
\* way the inventory and the sales log in memory are what they were.
C13_SaveReportsOutcome ==
  [][/\ \A io \in IoOutcomes :
          save_data(io) =>
            /\ last'.ret = (IF io = "ok" THEN "True" ELSE "False")
            /\ io = "ok" =>
                 inv_file' = File("list", [i \in 1..Len(inventory) |->
                                             to_dict(inventory[i]).d])
            /\ inventory' = inventory /\ sales_history' = sales_history
     /\ \A io \in IoOutcomes :
          save_sales_history(io) =>
            /\ last'.ret = (IF io = "ok" THEN "True" ELSE "False")
            /\ io = "ok" =>
                 sales_file' = File(sales_history.kind, sales_history.items)
            /\ inventory' = inventory /\ sales_history' = sales_history]_vars

\* a save_data whose write failed after the file was truncated, with vehicles
\* in memory and a sale in the log
C13_Witness ==
  /\ last.op = "save_data" /\ last.ret = "False"
  /\ inv_file = File("unparsable", <<>>)
  /\ Len(inventory) > 0 /\ Len(sales_history.items) > 0

\* C14: whenever Car accepted the arguments, Car(**to_dict()) is accepted too
\* and has the same make, model, year, price, vin and image_url.
C14_CarRoundTrip ==
  trial.stage \in {"rebuilt", "done"} =>
    /\ trial.second.exc = "none"
    /\ SameVehicle(trial.second.car, trial.first.car)

\* C15: for a Car constructed with a datetime sale_date (and a vin that is 17
\* characters long once stored), to_dict emits the ISO string of that date,
\* Car(**mapping) is accepted, and to_dict of the reconstructed Car succeeds
\* and gives the same mapping.
C15_SaleDateRoundTrip ==
  (trial.sale_date.t = "datetime" /\ Len(trial.first.car.vin) = VinLen) =>
    /\ trial.stage \in {"dict", "rebuilt", "done"} =>
         /\ trial.d.exc = "none"
         /\ trial.d.d.sale_date
              = [t |-> "isostr", s |-> <<>>, n |-> trial.sale_date.n]
    /\ trial.stage \in {"rebuilt", "done"} => trial.second.exc = "none"
    /\ trial.stage = "done" =>
         trial.d2.exc = "none" /\ trial.d2.d = trial.d.d

\* the value a number or a numeric string denotes
IsWhole(v) == v.t = "num" \/ (v.t = "str" /\ ParseNum(v.s).ok)
Denoted(v) == IF v.t = "num" THEN v.n ELSE ParseNum(v.s).n

\* the arguments the validation rules reject: make or model empty after
\* trimming, year not an integer or out of range, price not a number or not
\* positive, vin not 17 characters after trimming
Rejected(a) ==
  \/ strip(PyStr(a.make)) = <<>> \/ strip(PyStr(a.model)) = <<>>
  \/ ~IsWhole(a.year)
  \/ Denoted(a.year) < MinYear \/ Denoted(a.year) > CurrentYear + YearSlack
  \/ ~IsWhole(a.price) \/ Denoted(a.price) <= 0
  \/ Len(strip(PyStr(a.vin))) # VinLen

\* C16: for arguments with a string image_url, Car(...) raises ValueError and
\* yields no vehicle exactly when make or model is empty after trimming, year
\* is not an integer or outside [1900, current year + 2], price is not a
\* number or is <= 0, or the trimmed vin is not 17 characters long; otherwise
\* it succeeds (1900 and current year + 2 accepted, 1899 and current year + 3
\* rejected).
C16_RejectsExactlyInvalid ==
  (trial.stage # "args" /\ trial.args.image_url.t = "str") =>
    IF Rejected(trial.args)
    THEN trial.first.exc = "ValueError" /\ trial.first.car = NoCar
    ELSE trial.first.exc = "none"

\* C17: a successfully constructed Car has make and model trimmed and
\* title-cased, vin trimmed and upper-cased and exactly 17 characters long,
\* and image_url the trimmed argument, or the placeholder when that is empty;
\* image_url is never the empty string.
C17_Normalized ==
  (trial.stage # "args" /\ trial.first.exc = "none") =>
    /\ trial.first.car.make = title(strip(PyStr(trial.args.make)))
    /\ trial.first.car.model = title(strip(PyStr(trial.args.model)))
    /\ trial.first.car.vin = upper(strip(PyStr(trial.args.vin)))
    /\ Len(trial.first.car.vin) = VinLen
    /\ trial.first.car.image_url =
         (IF strip(trial.args.image_url.s) = <<>> THEN Placeholder
          ELSE strip(trial.args.image_url.s))
    /\ trial.first.car.image_url # <<>>

\* the keys of a record of the inventory file
InventoryKeys == {"make", "model", "year", "price", "vin", "image_url"}

\* C18: to_dict of a vehicle without a sale date returns a mapping with
\* exactly the six keys make, model, year, price, vin and image_url, holding
\* the vehicle's values, and no other key.
C18_SixKeys ==
  (trial.stage \in {"dict", "rebuilt", "done"} /\ trial.sale_date = Null) =>
    /\ trial.d.exc = "none"
    /\ trial.d.d.keys = InventoryKeys
    /\ trial.d.d.make = Str(trial.first.car.make)
    /\ trial.d.d.model = Str(trial.first.car.model)
    /\ trial.d.d.year = Num(trial.first.car.year)
    /\ trial.d.d.price = Num(trial.first.car.price)
    /\ trial.d.d.vin = Str(trial.first.car.vin)
    /\ trial.d.d.image_url = Str(trial.first.car.image_url)

\* the vehicles of inv whose make or model contains sub, ignoring case
RECURSIVE Containing(_, _)
Containing(inv, sub) ==
  IF inv = <<>> THEN <<>>
  ELSE IF \/ Contains(lower(sub), lower(Head(inv).make))
          \/ Contains(lower(sub), lower(Head(inv).model))
       THEN <<Head(inv)>> \o Containing(Tail(inv), sub)
       ELSE Containing(Tail(inv), sub)

\* C19: search_cars(query) returns, in inventory order, exactly the vehicles
\* whose make or model contains the trimmed query ignoring case: the whole
\* inventory for an empty or blank query, an empty list (a list, not None)
\* when nothing matches; inventory and sales log are unchanged by the call.
C19_SearchReturnsMatches ==
  [][\A q \in Queries :
       search_cars(q) =>
         /\ last'.ret = "list"
         /\ last'.out = Containing(inventory, strip(q))
         /\ strip(q) = <<>> => last'.out = inventory
         /\ inventory' = inventory /\ sales_history' = sales_history]_vars

\* a padded upper-case query returned one of the two vehicles
C19_Witness ==
  /\ last.op = "search_cars" /\ last.vin = <<" ", "B", "M", " ">>
  /\ Len(inventory) = 2 /\ Len(last.out) = 1
  /\ last.out[1].make = <<"B", "m", "w">>

\* C20: the history of a sales report lists the log newest first: a record
\* appended later (a later remove_car call) comes earlier in history, and no
\* record comes after one with an earlier sale_date.
C20_HistoryNewestFirst ==
  (last.op = "get_sales_report" /\ last.ret = "dict") =>
    /\ Len(last.out) = Len(sales_history.items)
    /\ \A i \in 1..Len(last.out) :
         last.out[i] = sales_history.items[Len(last.out) + 1 - i]
    /\ \A i \in 1..Len(last.out) : \A j \in (i + 1)..Len(last.out) :
         last.out[j].sale_date.n <= last.out[i].sale_date.n

\* the records of a sequence, with their multiplicities
Records(items) ==
  [r \in {items[i] : i \in 1..Len(items)} |->
     Cardinality({i \in 1..Len(items) : items[i] = r})]

SalesOf(vin) ==
  {i \in 1..Len(sales_history.items) : sales_history.items[i].vin = Str(vin)}

InvVins(inv) == {inv[i].vin : i \in 1..Len(inv)}

\* C23: a VIN goes from nonexistent to in inventory to sold: after the
\* startup load it enters the inventory only by an add_car that returns True
\* and leaves it only by a remove_car that returns True, no other operation
\* adds an entry, and add_car of a VIN that is not in the inventory succeeds
\* also when the sales log holds a record of that VIN.
C23_Lifecycle ==
  [][(pc = "ready") =>
       /\ \A v \in InvVins(inventory') \ InvVins(inventory) :
            last'.op = "add_car" /\ last'.ret = "True" /\ last'.vin = v
       /\ \A v \in InvVins(inventory) \ InvVins(inventory') :
            /\ last'.op = "remove_car" /\ last'.ret = "True"
            /\ NormOf[last'.vin] = v
            /\ sales_history'.items[Len(sales_history'.items)].vin = Str(v)
       /\ (last'.op # "add_car") => Len(inventory') <= Len(inventory)
       /\ (last'.op = "add_car" /\ last'.vin \notin InvVins(inventory)) =>
            /\ last'.ret = "True"
            /\ Len(inventory') = Len(inventory) + 1
            /\ inventory'[Len(inventory')].vin = last'.vin
    ]_vars

\* add_car accepted a VIN that was sold before
C23_Witness ==
  /\ last.op = "add_car" /\ last.ret = "True"
  /\ SalesOf(last.vin) # {}
  /\ last.vin \in InvVins(inventory)

\* C24: remove_car of a VIN whose normalized form no inventory entry has
\* returns False and changes nothing: the inventory keeps its entries and the
\* sales log its records.
C24_RemoveUnknown ==
  [][(last'.op = "remove_car" /\ NormOf[last'.vin] \notin InvVins(inventory))
       => /\ last'.ret = "False"
          /\ inventory' = inventory
          /\ sales_history' = sales_history
          /\ added' = added /\ now' = now
    ]_vars

\* remove_car did not find the VIN in an inventory that holds a vehicle,
\* the log holding a record
C24_Witness ==
  /\ last.op = "remove_car" /\ last.ret = "False"
  /\ inventory # <<>> /\ NormOf[last.vin] \notin InvVins(inventory)
  /\ sales_history.kind = "list" /\ sales_history.items # <<>>

\* what the caller of a successful edit expects of the vehicle: the given
\* fields hold the new values, a blank image the placeholder
Edited(car, new_price, new_year, new_image_url) ==
  [car EXCEPT
     !.price = IF new_price.t = "null" THEN @ ELSE new_price.n,
     !.year = IF new_year.t = "null" THEN @ ELSE new_year.n,
     !.image_url = IF new_image_url.t = "null" THEN @
                   ELSE IF \A k \in 1..Len(new_image_url.s) :
                             IsSpace(new_image_url.s[k])
                   THEN Placeholder ELSE strip(new_image_url.s)]

\* the effect of a successful edit on the whole state
EditedOnly(new_price, new_year, new_image_url) ==
  /\ last'.idx \in 1..Len(inventory)
  /\ inventory[last'.idx].vin = Norm(last'.vin)
  /\ inventory' =
       [inventory EXCEPT
          ![last'.idx] = Edited(@, new_price, new_year, new_image_url)]
  /\ inventory'[last'.idx].make = inventory[last'.idx].make
  /\ inventory'[last'.idx].model = inventory[last'.idx].model
  /\ inventory'[last'.idx].vin = inventory[last'.idx].vin
  /\ sales_history' = sales_history

\* C25: an edit_car that returns True sets exactly the given fields of the
\* vehicle with that VIN to the new values (a blank image_url becomes the
\* placeholder), keeps the fields that were not given, never changes make,
\* model or vin, and leaves the other inventory entries and the sales log
\* unchanged.
C25_EditSetsGiven ==
  [][/\ \A c \in EditCalls :
          (edit_car(c[1], c[2], c[3]) /\ last'.ret = "True")
          => EditedOnly(c[2], c[3], Null)
     /\ \A c \in AppEditCalls :
          (app_edit_car(c[1], c[2], c[3], c[4]) /\ last'.ret = "True")
          => EditedOnly(c[2], c[3], c[4])]_vars

\* an edit changed only the year of the second entry: its price is the loaded
\* one and the first entry is as loaded
C25_Witness ==
  /\ last.op = "edit_car" /\ last.ret = "True" /\ last.idx = 2
  /\ Len(inventory) = 2
  /\ inventory[2].year = 2022 /\ inventory[2].price = 55000
  /\ inventory[1].vin = V17("B") /\ inventory[1].price = 15000

\* C26: when a handler for add, edit or sell has finished, the user was told
\* of success only if no save the handler made returned False, and a save
\* that returned False was reported as a failure or a warning.
C26_SaveSignalChecked ==
  (flow.at = "idle" /\ flow.op \in {"add", "edit", "sell"}) =>
    /\ ("success" \in flow.told) => ~flow.failed
    /\ flow.failed => (flow.told \cap {"error", "warning"} # {})

\* C28: when a sell handler has finished or the process was stopped in it, a
\* vehicle that was in the inventory file when the handler started is still
\* in the inventory file or has its sale record in the sales file.
C28_SellKeepsVehicleOnDisk ==
  (flow.op = "sell" /\ flow.at \in {"idle", "stopped"} /\ flow.infile) =>
    InFile(inv_file, flow.vin) \/ InFile(sales_file, flow.vin)

\* C27: every inventory entry satisfies the field constraints: make and model
\* are not empty, the year is in 1900 .. current year + 2, the price is
\* positive, the vin has exactly 17 characters, none of them lower-case, and
\* image_url is not empty - after the load and after every add_car and every
\* edit_car, successful or failed.
C27_EntriesValid ==
  \A i \in 1..Len(inventory) :
    /\ inventory[i].make # <<>> /\ inventory[i].model # <<>>
    /\ MinYear <= inventory[i].year
    /\ inventory[i].year <= CurrentYear + YearSlack
    /\ inventory[i].price > 0
    /\ Len(inventory[i].vin) = VinLen
    /\ \A k \in 1..Len(inventory[i].vin) : ~IsLower(inventory[i].vin[k])
    /\ inventory[i].image_url # <<>>

\* C29: starting without persisted files, after any sequence of add_car,
\* edit_car and remove_car the sales log has as many records as remove_car
\* calls returned True, and inventory and sales log together have as many
\* entries as add_car calls returned True.
C29_Conservation ==
  (flow.at = "count") =>
    /\ Len(sales_history.items) = flow.removes
    /\ Len(inventory) + Len(sales_history.items) = flow.adds

\* two vehicles were added, one of them was sold
C29_Witness ==
  /\ flow.at = "count" /\ flow.adds = 2 /\ flow.removes = 1
  /\ Len(inventory) = 1 /\ Len(sales_history.items) = 1

\* both threads have returned from calls of one method for one VIN
BothDone(op) ==
  /\ flow.at = "threads"
  /\ \A k \in {1, 2} : flow.th[k].pc = "done" /\ flow.th[k].op = op
  /\ VinOf(flow.th[1]) = VinOf(flow.th[2])

\* C30: of two interleaved add_car calls for one VIN on the shared manager at
\* most one returns True and the inventory ends with at most one entry of
\* that VIN; two interleaved remove_car calls for one VIN append at most one
\* sale record.
C30_OneWinner ==
  /\ BothDone("add_car") =>
       /\ ~(flow.th[1].ret = "True" /\ flow.th[2].ret = "True")
       /\ Cardinality({i \in 1..Len(inventory) :
                         inventory[i].vin = VinOf(flow.th[1])}) <= 1
  /\ BothDone("remove_car") =>
       Cardinality(SalesOf(VinOf(flow.th[1]))) <= 1
====
